---- MODULE Spec2Model ----
(***************************************************************************)
(* State-machine model of sync_last6h_append.js: a job that reads the      *)
(* documents of the last six hours from a MongoDB collection, flattens     *)
(* them, unifies the sheet's header row with the observed keys and appends *)
(* one row per document to a Google sheet.                                 *)
(*                                                                         *)
(* JavaScript values are tagged records of one shape, [t, s, n, kids]:     *)
(*   t = "null" | "undef" | "str" | "num" | "date" | "arr" | "map"         *)
(*   s    the text of a string, or the ISO text of a Date                  *)
(*   n    the value of a number                                            *)
(*   kids the entries <<key, value>> of an object, in key order; for an    *)
(*        array the keys are its indices                                   *)
(* Strings are TLA+ strings, so that concatenation, the trailing-dot       *)
(* strip of flatten and key equality are computed and not assumed.         *)
(***************************************************************************)
EXTENDS Integers, Sequences, FiniteSets, TLC

\* ------------------------------------------------------------------ bounds
\* Documents the store may receive in one behaviour.
MaxDocs == 2
\* Runs of main() that may be started in one behaviour.
MaxRuns == 2
\* Long steps (of half the lookback each) the clock may advance.
MaxSteps == 3

\* --------------------------------------------------------- JavaScript values
Null == [t |-> "null", s |-> "", n |-> 0, kids |-> <<>>]
Undef == [t |-> "undef", s |-> "", n |-> 0, kids |-> <<>>]
Str(x) == [t |-> "str", s |-> x, n |-> 0, kids |-> <<>>]
Num(x) == [t |-> "num", s |-> "", n |-> x, kids |-> <<>>]
DateV(iso) == [t |-> "date", s |-> iso, n |-> 0, kids |-> <<>>]
Arr(entries) == [t |-> "arr", s |-> "", n |-> 0, kids |-> entries]
Map(entries) == [t |-> "map", s |-> "", n |-> 0, kids |-> entries]

\* ------------------------------------------------------------- ordered maps
\* A JavaScript object used as a map: a sequence of <<key, value>> with
\* distinct keys, in insertion order.
HasKey(obj, k) == \E i \in 1..Len(obj) : obj[i][1] = k

Get(obj, k) == obj[CHOOSE i \in 1..Len(obj) : obj[i][1] = k][2]

Keys(obj) == [i \in 1..Len(obj) |-> obj[i][1]]

\* out[k] = v: a new key goes last, an existing key keeps its place.
Put(out, k, v) ==
  IF HasKey(out, k)
  THEN [i \in 1..Len(out) |-> IF out[i][1] = k THEN <<k, v>> ELSE out[i]]
  ELSE Append(out, <<k, v>>)

\* ---------------------------------------------------------------- flatten
\* prefix.replace(/\.$/, ""): one trailing dot is removed.
StripDot(prefix) ==
  IF Len(prefix) > 0 /\ SubSeq(prefix, Len(prefix), Len(prefix)) = "."
  THEN SubSeq(prefix, 1, Len(prefix) - 1)
  ELSE prefix

\* ChildPrefix with the path so far dropped.
ChildPrefixNoPath(prefix, k) == k \o "."

\* The prefix handed to the recursive call for key k.
ChildPrefix(prefix, k) ==
  IF prefix # "" THEN prefix \o k \o "." ELSE k \o "."

RECURSIVE flatten(_, _, _)
RECURSIVE flattenKeys(_, _, _, _)
\* flatten(obj, prefix, out): null, undefined, scalars, dates and arrays are
\* leaves stored under the prefix without its trailing dot; an object is
\* descended key by key.
flatten(obj, prefix, out) ==
  IF obj.t \in {"null", "undef"} THEN Put(out, StripDot(prefix), obj)
  ELSE IF obj.t # "map" THEN Put(out, StripDot(prefix), obj)
  ELSE flattenKeys(obj.kids, 1, prefix, out)

\* The for loop of flatten over Object.keys(obj), from entry i on.
flattenKeys(kids, i, prefix, out) ==
  IF i > Len(kids) THEN out
  ELSE flattenKeys(kids, i + 1, prefix,
                   flatten(kids[i][2], ChildPrefix(prefix, kids[i][1]), out))

\* ------------------------------------------------------- string conversions
Digits == <<"0", "1", "2", "3", "4", "5", "6", "7", "8", "9">>

HexDigits == Digits \o <<"a", "b", "c", "d", "e", "f">>

RECURSIVE Dec(_)
\* String(n) of a non-negative integer.
Dec(n) == IF n < 10 THEN Digits[n + 1] ELSE Dec(n \div 10) \o Digits[(n % 10) + 1]

RECURSIVE Hex(_, _)
\* n in hexadecimal, w digits wide, zero padded.
Hex(n, w) == IF w = 0 THEN "" ELSE Hex(n \div 16, w - 1) \o HexDigits[(n % 16) + 1]

RECURSIVE Json(_)
RECURSIVE JsonItems(_, _, _)
\* JSON.stringify(v).
Json(v) ==
  CASE v.t = "str" -> "\"" \o v.s \o "\""
    [] v.t = "num" -> Dec(v.n)
    [] v.t = "date" -> "\"" \o v.s \o "\""
    [] v.t = "arr" -> "[" \o JsonItems(v.kids, 1, FALSE) \o "]"
    [] v.t = "map" -> "{" \o JsonItems(v.kids, 1, TRUE) \o "}"
    [] OTHER -> "null"

\* The comma separated entries of an array (named = FALSE) or object.
JsonItems(kids, i, named) ==
  IF i > Len(kids) THEN ""
  ELSE (IF i > 1 THEN "," ELSE "")
       \o (IF named THEN "\"" \o kids[i][1] \o "\":" ELSE "")
       \o Json(kids[i][2])
       \o JsonItems(kids, i + 1, named)

\* String(v) of a string or a number.
ToStr(v) == IF v.t = "num" THEN Dec(v.n) ELSE v.s

\* ------------------------------------------------------------ identifiers
\* An ObjectId is <<seconds, rest>>: its 4-byte timestamp and the 8 bytes
\* after it; ObjectIds compare bytewise, that is, lexicographically.

\* An ObjectId of the second with the bytes after the timestamp set high.
createFromTimeHigh(sec) == <<sec, MaxDocs + 1>>

\* ObjectId.createFromTime: the bytes after the timestamp are zero.
createFromTime(sec) == <<sec, 0>>

OidGte(a, b) == a[1] > b[1] \/ (a[1] = b[1] /\ a[2] >= b[2])

\* ObjectId.toString(): 24 hexadecimal digits.
OidToString(id) == Hex(id[1], 8) \o Hex(id[2], 16)

\* ------------------------------------------------------------- the window
\* 6 * 60 * 60 * 1000 milliseconds.
LookbackMs == 6 * 60 * 60 * 1000

\* The long step of the clock: half the lookback.
StepMs == LookbackMs \div 2

\* CutoffSeconds rounding up instead of down.
CutoffSecondsCeil(t) == (t - LookbackMs + 999) \div 1000

\* Math.floor(sixHoursAgo.getTime() / 1000) at the instant t (milliseconds).
CutoffSeconds(t) == (t - LookbackMs) \div 1000

\* The cutoff one second late.
oidCutoffNextSecond(t) == createFromTime(CutoffSeconds(t) + 1)

oidCutoff(t) == createFromTime(CutoffSeconds(t))

RECURSIVE InsertById(_, _)
\* d put into the ascending sequence sorted.
InsertById(sorted, d) ==
  IF sorted = <<>> THEN <<d>>
  ELSE IF OidGte(d.id, Head(sorted).id) THEN <<Head(sorted)>> \o InsertById(Tail(sorted), d)
  ELSE <<d>> \o sorted

RECURSIVE SortById(_)
\* .sort({ _id: 1 })
SortById(ds) == IF ds = <<>> THEN <<>> ELSE InsertById(SortById(Tail(ds)), Head(ds))

\* coll.find({ _id: { $gte: oidCutoff } }).sort({ _id: 1 }).toArray()
FindWindow(coll, t) ==
  SortById(SelectSeq(coll, LAMBDA d : OidGte(d.id, oidCutoff(t))))

\* ------------------------------------------------- flattening the documents
\* const copy = { ...d }; copy._id = copy._id.toString(): the document as a
\* JavaScript object, _id first as the store returns it.
CopyDoc(d) == Map(<< <<"_id", Str(OidToString(d.id))>> >> \o d.body)

FlattenDoc(d) == flatten(CopyDoc(d), "", <<>>)

\* rowsFlat: one FlatRow per document.
RowsFlat(ds) == [i \in 1..Len(ds) |-> FlattenDoc(ds[i])]

RECURSIVE AddAll(_, _)
\* ks.forEach(k => set.add(k)) on a Set kept in insertion order.
AddAll(set, ks) ==
  IF ks = <<>> THEN set
  ELSE AddAll(IF \E i \in 1..Len(set) : set[i] = Head(ks) THEN set
              ELSE Append(set, Head(ks)), Tail(ks))

RECURSIVE HeaderSetFrom(_, _)
\* headerSet after the keys of the rows flat have been added to set.
HeaderSetFrom(flat, set) ==
  IF flat = <<>> THEN set ELSE HeaderSetFrom(Tail(flat), AddAll(set, Keys(Head(flat))))

HeaderSet(flat) == HeaderSetFrom(flat, <<>>)

\* ---------------------------------------------------------- schema unifier
Includes(seq, x) == \E i \in 1..Len(seq) : seq[i] = x

\* Headers without the filter for the keys already present.
HeadersNoFilter(existing, headerSet) ==
  IF Len(existing) > 0 THEN existing \o headerSet ELSE headerSet

\* headers built from the observed keys alone, the existing header dropped.
HeadersObservedOnly(existing, headerSet) == headerSet

\* headers: the existing header followed by the missing keys, or the
\* observed keys when there is no existing header.
Headers(existing, headerSet) ==
  IF Len(existing) > 0
  THEN existing \o SelectSeq(headerSet, LAMBDA h : ~Includes(existing, h))
  ELSE headerSet

\* MustWriteHeader without the branch for added columns.
MustWriteHeaderOnlyEmpty(existing, headers) == Len(existing) = 0

\* The condition of the two branches that call values.update.
MustWriteHeader(existing, headers) ==
  Len(existing) = 0 \/ Len(existing) < Len(headers)

\* --------------------------------------------------------- row materializer
\* Cell with null and undefined rendered by String().
CellNullText(obj, h) ==
  LET v == IF HasKey(obj, h) THEN Get(obj, h) ELSE Str("")
  IN IF v.t \in {"arr", "map", "date"} THEN Json(v)
     ELSE IF v.t = "null" THEN "null"
     ELSE IF v.t = "undef" THEN "undefined"
     ELSE ToStr(v)

\* One cell: the value under h, or "" when the row has no such key.
Cell(obj, h) ==
  LET v == IF HasKey(obj, h) THEN Get(obj, h) ELSE Str("")
  IN IF v.t \in {"arr", "map", "date"} THEN Json(v)
     ELSE IF v.t \in {"null", "undef"} THEN ""
     ELSE ToStr(v)

Materialize(headers, obj) == [j \in 1..Len(headers) |-> Cell(obj, headers[j])]

\* values: one row per FlatRow, aligned to headers.
Values(headers, flat) == [i \in 1..Len(flat) |-> Materialize(headers, flat[i])]

\* -------------------------------------------------------------- the sheet
RECURSIVE TrimRight(_)
\* values.get returns a row without its trailing empty cells.
TrimRight(row) ==
  IF row # <<>> /\ row[Len(row)] = "" THEN TrimRight(SubSeq(row, 1, Len(row) - 1))
  ELSE row

\* values.update on A1:1 with one row: the cells given are written, the
\* cells to their right are left as they are.
UpdateRow(old, new) ==
  [i \in 1..(IF Len(old) > Len(new) THEN Len(old) ELSE Len(new)) |->
     IF i <= Len(new) THEN new[i] ELSE old[i]]

\* values.append that puts the new rows on top of the existing ones.
AppendValuesOnTop(old, values) == values \o old

\* values.append is sent a second time after a lost response.
AppendValuesTwice(old, values) == old \o values \o values

\* values.append with INSERT_ROWS: the rows go after the existing ones.
AppendValues(old, values) == old \o values

\* ================================================================ the state
VARIABLES
  now,            \* Date.now(): milliseconds since an instant on a whole second
  store,          \* the collection: documents [id, body] in insertion order
  header,         \* row 1 of the sheet
  rows,           \* the rows of the sheet below row 1
  pc,             \* per run of main(): the await it is suspended at
  docs,           \* per run: const docs
  existingHeader, \* per run: let existingHeader
  wrote,          \* per run: whether values.update has been called
  exitCode,       \* per run slot: how the last run there ended
  started,        \* runs of main() started so far
  seenLen,        \* history, per run: size of the store at its query
  lastOkSeen,     \* history: seenLen of the last run, when it exited 0; else -1
  startedAt,      \* history, per run: the instant main() was started; else -1
  queriedAt,      \* history, per run: the instant of its Date.now(); else -1
  prev,           \* history: how the last run that ended went
  pending,        \* history: the documents a failed append left behind
  raced,          \* history: a run appended while another held a header read
  fnIn,           \* argument of the pure function under check
  fnOut           \* its result

vars == <<now, store, header, rows, pc, docs, existingHeader, wrote, exitCode,
          started, seenLen, lastOkSeen, startedAt, queriedAt, prev, pending,
          raced,
          fnIn, fnOut>>

sheetVars == <<header, rows>>
localVars == <<docs, existingHeader, wrote>>
histVars == <<seenLen, lastOkSeen, startedAt, queriedAt, prev, pending, raced>>
fnVars == <<fnIn, fnOut>>

\* The slots in which main() may run; Spec uses the first only (runs one
\* after the other), SpecRace both.
Procs == {1, 2}

\* The first instant of a behaviour: six hours after the origin, so that
\* the cutoff is never negative.
StartMs == LookbackMs

\* Bodies of the documents the upstream system inserts (the fields after _id).
DocBodies ==
  { << <<"name", Str("x")>> >>,
    << <<"addr", Map(<< <<"city", Num(5)>> >>)>>, <<"name", Null>> >> }

NoFn == [done |-> FALSE, val |-> <<>>]

\* No history is kept of the runs that ended.
NoHistory == [at |-> "off", t |-> -1, docs |-> <<>>]

\* History is kept, and no run has ended yet; no append has failed yet.
NoPrev == [at |-> "none", t |-> -1, docs |-> <<>>]

NoPending == [st |-> "none", docs |-> <<>>]

MainInit ==
  /\ now = StartMs
  /\ store = <<>>
  /\ header = <<>>
  /\ rows = <<>>
  /\ pc = [p \in Procs |-> "idle"]
  /\ docs = [p \in Procs |-> <<>>]
  /\ existingHeader = [p \in Procs |-> <<>>]
  /\ wrote = [p \in Procs |-> FALSE]
  /\ exitCode = [p \in Procs |-> -1]
  /\ started = 0
  /\ seenLen = [p \in Procs |-> 0]
  /\ lastOkSeen = -1
  /\ startedAt = [p \in Procs |-> -1]
  /\ queriedAt = [p \in Procs |-> -1]
  /\ pending = NoPending
  /\ raced = FALSE

ProgramInit == MainInit /\ prev = NoHistory

Init == ProgramInit /\ fnIn = <<>> /\ fnOut = NoFn

\* The same state, with the history of the runs kept.
InitHistory == MainInit /\ prev = NoPrev /\ fnIn = <<>> /\ fnOut = NoFn

\* ---------------------------------------------------------- the environment
\* A run reads the clock and the store once, in its query, and nothing else
\* of the environment: a tick or an insert while a run is under way has the
\* effect of the same step taken right after the run. The environment
\* therefore moves between runs, and rests once the last run has started.
Between == (\A p \in Procs : pc[p] = "idle") /\ started < MaxRuns

\* Half a second passes (the clock is kept on whole and half seconds).
TickHalfSecond ==
  /\ Between
  /\ now % 1000 = 0
  /\ now' = now + (1000 \div 2)
  /\ UNCHANGED <<store, sheetVars, pc, localVars, exitCode, started, histVars, fnVars>>

\* Three hours pass.
TickStep ==
  /\ Between
  /\ now + StepMs <= StartMs + MaxSteps * StepMs
  /\ now' = now + StepMs
  /\ UNCHANGED <<store, sheetVars, pc, localVars, exitCode, started, histVars, fnVars>>

\* The upstream system inserts a document; its ObjectId carries the current
\* second and a counter that grows with every insert.
Insert(body) ==
  /\ Between
  /\ Len(store) < MaxDocs
  /\ store' = Append(store, [id |-> <<now \div 1000, Len(store) + 1>>, body |-> body])
  /\ UNCHANGED <<now, sheetVars, pc, localVars, exitCode, started, histVars, fnVars>>

\* ------------------------------------------------------------------ main()
\* The run in slot p ends: the process exits with code c.
Exit(p, c) ==
  /\ pc' = [pc EXCEPT ![p] = "idle"]
  /\ docs' = [docs EXCEPT ![p] = <<>>]
  /\ existingHeader' = [existingHeader EXCEPT ![p] = <<>>]
  /\ wrote' = [wrote EXCEPT ![p] = FALSE]
  /\ exitCode' = [exitCode EXCEPT ![p] = c]

\* The call at which the run in slot p ends with code c: "connect" and
\* "query" are the store calls that threw, "header" and "append" the sink
\* calls that threw, "empty" the return on an empty window, "done" the end
\* of main().
EndedAt(p, c) ==
  CASE pc[p] = "idle" -> "connect"
    [] pc[p] = "connected" -> IF c = 0 THEN "empty" ELSE "query"
    [] pc[p] = "headerRead" -> "header"
    [] OTHER -> IF c = 0 THEN "done" ELSE "append"

\* The history of a run that ends with code c, having seen n documents.
\* prev holds the query instant and the documents of a run that is done;
\* pending opens when values.append throws after values.update has
\* returned, and closes with the next run that exits 0.
Ended(p, c, n) ==
  /\ seenLen' = [seenLen EXCEPT ![p] = 0]
  /\ lastOkSeen' = IF c = 0 THEN n ELSE -1
  /\ startedAt' = [startedAt EXCEPT ![p] = -1]
  /\ queriedAt' = [queriedAt EXCEPT ![p] = -1]
  /\ prev' = IF prev = NoHistory THEN prev
              ELSE IF pc[p] = "headerDone" /\ c = 0
                THEN [at |-> "done", t |-> queriedAt[p], docs |-> docs[p]]
              ELSE [at |-> EndedAt(p, c), t |-> -1, docs |-> <<>>]
  /\ pending' = IF prev = NoHistory THEN pending
                 ELSE IF pc[p] = "headerDone" /\ c = 1 /\ wrote[p]
                   THEN [st |-> "open", docs |-> docs[p]]
                 ELSE IF pending.st = "open" /\ c = 0
                   THEN [pending EXCEPT !.st = "closed"]
                 ELSE IF pending.st = "closed" THEN NoPending
                 ELSE pending
  /\ raced' = (raced \/ (pc[p] = "headerDone" /\ c = 0 /\
                          \E q \in Procs \ {p} : pc[q] \in {"headerRead", "headerDone"}))

\* main() is started; getSheetsClient() and client.connect() succeed.
StartRun(p) ==
  /\ pc[p] = "idle"
  /\ started < MaxRuns
  /\ started' = started + 1
  /\ pc' = [pc EXCEPT ![p] = "connected"]
  /\ exitCode' = [exitCode EXCEPT ![p] = -1]
  /\ startedAt' = [startedAt EXCEPT ![p] = now]
  /\ UNCHANGED <<now, store, sheetVars, localVars, seenLen, lastOkSeen, queriedAt,
                 prev, pending, raced, fnVars>>

\* main() is started; getSheetsClient() or client.connect() throws.
StartFault(p) ==
  /\ pc[p] = "idle"
  /\ started < MaxRuns
  /\ started' = started + 1
  /\ Exit(p, 1)
  /\ Ended(p, 1, 0)
  /\ UNCHANGED <<now, store, sheetVars, fnVars>>

\* The window query returns; its documents are flattened. With no document
\* the run closes the client and returns.
Query(p) ==
  /\ pc[p] = "connected"
  /\ LET found == FindWindow(store, now)
     IN IF Len(found) = 0
        THEN /\ Exit(p, 0)
             /\ Ended(p, 0, Len(store))
        ELSE /\ pc' = [pc EXCEPT ![p] = "queried"]
             /\ docs' = [docs EXCEPT ![p] = found]
             /\ seenLen' = [seenLen EXCEPT ![p] = Len(store)]
             /\ queriedAt' = [queriedAt EXCEPT ![p] = now]
             /\ UNCHANGED <<existingHeader, wrote, exitCode, lastOkSeen, startedAt,
                            prev, pending, raced>>
  /\ UNCHANGED <<now, store, sheetVars, started, fnVars>>

\* The window query throws and the catch swallows the error.
QueryFaultExitsZero(p) ==
  /\ pc[p] = "connected"
  /\ Exit(p, 0)
  /\ Ended(p, 1, 0)
  /\ UNCHANGED <<now, store, sheetVars, started, fnVars>>

\* The window query throws.
QueryFault(p) ==
  /\ pc[p] = "connected"
  /\ Exit(p, 1)
  /\ Ended(p, 1, 0)
  /\ UNCHANGED <<now, store, sheetVars, started, fnVars>>

\* values.get of the header row returns.
ReadHeader(p) ==
  /\ pc[p] = "queried"
  /\ existingHeader' = [existingHeader EXCEPT ![p] = TrimRight(header)]
  /\ pc' = [pc EXCEPT ![p] = "headerRead"]
  /\ UNCHANGED <<now, store, sheetVars, docs, wrote, exitCode, started, histVars, fnVars>>

\* values.get of the header row throws and the error reaches main()'s catch.
ReadHeaderFaultAborts(p) ==
  /\ pc[p] = "queried"
  /\ Exit(p, 1)
  /\ Ended(p, 1, 0)
  /\ UNCHANGED <<now, store, sheetVars, started, fnVars>>

\* values.get of the header row throws: the catch sets existingHeader = [].
ReadHeaderFault(p) ==
  /\ pc[p] = "queried"
  /\ existingHeader' = [existingHeader EXCEPT ![p] = <<>>]
  /\ pc' = [pc EXCEPT ![p] = "headerRead"]
  /\ UNCHANGED <<now, store, sheetVars, docs, wrote, exitCode, started, histVars, fnVars>>

\* const headers of the run in slot p.
RunHeaders(p) == Headers(existingHeader[p], HeaderSet(RowsFlat(docs[p])))

\* const values of the run in slot p.
RunValues(p) == Values(RunHeaders(p), RowsFlat(docs[p]))

\* One of the two values.update branches: the header row is written.
WriteHeader(p) ==
  /\ pc[p] = "headerRead"
  /\ MustWriteHeader(existingHeader[p], RunHeaders(p))
  /\ header' = UpdateRow(header, RunHeaders(p))
  /\ wrote' = [wrote EXCEPT ![p] = TRUE]
  /\ pc' = [pc EXCEPT ![p] = "headerDone"]
  /\ UNCHANGED <<now, store, rows, docs, existingHeader, exitCode, started, histVars, fnVars>>

\* values.update throws.
WriteHeaderFault(p) ==
  /\ pc[p] = "headerRead"
  /\ MustWriteHeader(existingHeader[p], RunHeaders(p))
  /\ Exit(p, 1)
  /\ Ended(p, 1, 0)
  /\ UNCHANGED <<now, store, sheetVars, started, fnVars>>

\* The else branch: the header is left as it is.
KeepHeader(p) ==
  /\ pc[p] = "headerRead"
  /\ ~MustWriteHeader(existingHeader[p], RunHeaders(p))
  /\ pc' = [pc EXCEPT ![p] = "headerDone"]
  /\ UNCHANGED <<now, store, sheetVars, localVars, exitCode, started, histVars, fnVars>>

\* values.append returns; the run closes the client and is done.
AppendRows(p) ==
  /\ pc[p] = "headerDone"
  /\ rows' = AppendValues(rows, RunValues(p))
  /\ Exit(p, 0)
  /\ Ended(p, 0, seenLen[p])
  /\ UNCHANGED <<now, store, header, started, fnVars>>

\* values.append throws.
AppendFault(p) ==
  /\ pc[p] = "headerDone"
  /\ Exit(p, 1)
  /\ Ended(p, 1, 0)
  /\ UNCHANGED <<now, store, sheetVars, started, fnVars>>

\* A step of the run in slot p.
RunStep(p) ==
  \/ Query(p)
  \/ QueryFault(p)
  \/ ReadHeader(p)
  \/ ReadHeaderFault(p)
  \/ WriteHeader(p)
  \/ WriteHeaderFault(p)
  \/ KeepHeader(p)
  \/ AppendRows(p)
  \/ AppendFault(p)

Environment ==
  \/ TickHalfSecond
  \/ TickStep
  \/ \E body \in DocBodies : Insert(body)

\* Runs one after the other: every run is in slot 1.
Next ==
  \/ Environment
  \/ StartRun(1)
  \/ StartFault(1)
  \/ RunStep(1)

Spec == Init /\ [][Next]_vars

\* The same runs, with the history of the runs kept.
SpecHistory == InitHistory /\ [][Next]_vars

\* ------------------------------------------------------- overlapping runs
\* Each slot runs main() once, slot 1 first. A start reads nothing, so the
\* time a run takes from its start to its query is time passed before its
\* start: the environment moves until both runs are started.
Moving == started < Cardinality(Procs)

\* A started run has yet to query.
Querying == \E p \in Procs : pc[p] = "connected"

\* main() is started in slot p, the p-th of the runs.
StartOnce(p) == started = p - 1 /\ StartRun(p)

\* Three hours pass while runs may be under way.
TickStepRace ==
  /\ Moving
  /\ now + StepMs <= StartMs + MaxSteps * StepMs
  /\ now' = now + StepMs
  /\ UNCHANGED <<store, sheetVars, pc, localVars, exitCode, started, histVars, fnVars>>

\* The upstream system inserts a document while runs may be under way.
InsertRace(body) ==
  /\ Moving
  /\ Len(store) < MaxDocs
  /\ store' = Append(store, [id |-> <<now \div 1000, Len(store) + 1>>, body |-> body])
  /\ UNCHANGED <<now, sheetVars, pc, localVars, exitCode, started, histVars, fnVars>>

\* A sink call of a run returns.
SinkStep(p) ==
  \/ ReadHeader(p)
  \/ WriteHeader(p)
  \/ KeepHeader(p)
  \/ AppendRows(p)

\* A step of a started run in which no call throws.
CleanStep(p) == Query(p) \/ SinkStep(p)

\* Two scheduler slots start main() independently; the awaits of the two
\* runs interleave. A start or a query neither reads nor writes the sheet
\* and a sink call reads neither the clock nor the store, so that every
\* interleaving has the outcome of one in which both runs query before the
\* first sink call: the sink calls, in all their orders, come after the
\* queries. The clock moves in steps of three hours here.
NextRace ==
  \/ TickStepRace
  \/ \E body \in DocBodies : InsertRace(body)
  \/ \E p \in Procs :
       StartOnce(p) \/ Query(p) \/ (~Moving /\ ~Querying /\ SinkStep(p))

SpecRace == Init /\ [][NextRace]_vars

\* ------------------------------------------------------- a regular cadence
\* A second passes between the start of main() and its Date.now(), while
\* getSheetsClient() and client.connect() are awaited.
ConnectDelay(p) ==
  /\ pc[p] = "connected"
  /\ now = startedAt[p]
  /\ now' = now + 1000
  /\ UNCHANGED <<store, sheetVars, pc, localVars, exitCode, started, histVars, fnVars>>

\* Runs one after the other in which no call throws.
NextCadence ==
  \/ Environment
  \/ StartRun(1)
  \/ CleanStep(1)
  \/ ConnectDelay(1)

SpecCadence == Init /\ [][NextCadence]_vars

\* ===================================================== the pure functions
\* Bounds of the inputs the pure functions are applied to.
MaxKeys == 2
MaxHeaderLen == 3

\* Field names of the records handed to flatten; one holds the separator.
FlatNames == <<"a", "b", "a.b">>

\* Leaves of the records handed to flatten.
FlatLeaves == <<Null, Str("1"), Arr(<< <<"0", Num(1)>> >>)>>

\* The objects whose keys are at most MaxKeys of FlatNames, in that order,
\* each key bound to one of vals.
ObjectsOver(vals) ==
  { Map(SelectSeq([i \in 1..Len(FlatNames) |-> <<FlatNames[i], f[i]>>],
                  LAMBDA e : e[1] \in ks))
      : <<ks, f>> \in { kf \in (SUBSET {FlatNames[i] : i \in 1..Len(FlatNames)})
                                  \X [1..Len(FlatNames) -> vals] :
                          /\ Cardinality(kf[1]) <= MaxKeys
                          /\ \A i \in 1..Len(FlatNames) :
                               FlatNames[i] \notin kf[1] => kf[2][i] = Null } }

FlatLeafSet == {FlatLeaves[i] : i \in 1..Len(FlatLeaves)}

\* Records of depth at most two.
FlatInputs == ObjectsOver(FlatLeafSet \cup ObjectsOver(FlatLeafSet))

\* Column names and cell values handed to the materializer.
MatNames == <<"x", "y", "z">>

MatLeaves ==
  <<Null, Undef, Str("1"), Num(12),
    Arr(<< <<"0", Num(1)>>, <<"1", Str("a")>> >>),
    DateV("2024-01-02T03:04:05.000Z")>>

\* The FlatRow that binds MatNames[i] to MatLeaves[f[i]], or not at all
\* when f[i] = 0.
MatRow(f) ==
  LET all == [i \in 1..Len(MatNames) |->
                <<MatNames[i], IF f[i] = 0 THEN Null ELSE MatLeaves[f[i]]>>]
  IN SelectSeq(all, LAMBDA e : \E i \in 1..Len(MatNames) :
                                  MatNames[i] = e[1] /\ f[i] # 0)

MatInputs ==
  { [h |-> h, r |-> MatRow(f)] :
      <<h, f>> \in (UNION {[1..k -> {MatNames[i] : i \in 1..Len(MatNames)}]
                             : k \in 0..MaxHeaderLen})
                   \X [1..Len(MatNames) -> 0..Len(MatLeaves)] }

\* Bound of the collections handed to the window query.
MaxStore == 3

\* The instant of the window query under check: a whole second, and the
\* half second after it.
WinNow == 2 * LookbackMs

WinInstants == {WinNow, WinNow + (1000 \div 2)}

\* Seconds carried by the identifiers in those collections: 7 h, 6 h and a
\* second, 6 h, 5 h and 1 h before WinNow.
WinSeconds ==
  { (WinNow \div 1000) - 7 * 3600, (WinNow \div 1000) - 6 * 3600 - 1,
    (WinNow \div 1000) - 6 * 3600, (WinNow \div 1000) - 5 * 3600,
    (WinNow \div 1000) - 1 * 3600 }

WinDocs == { [id |-> <<sec, u>>, body |-> <<>>] : sec \in WinSeconds, u \in 1..2 }

\* Collections of distinct documents in any (natural) order.
WinInputs ==
  { [coll |-> c, t |-> t] :
      c \in { c \in UNION {[1..k -> WinDocs] : k \in 0..MaxStore} :
                \A i, j \in 1..Len(c) : i # j => c[i] # c[j] },
      t \in WinInstants }

InitWindow == ProgramInit /\ fnIn \in WinInputs /\ fnOut = NoFn

\* The window query is run on the collection at the instant.
ApplyWindow ==
  /\ ~fnOut.done
  /\ fnOut' = [done |-> TRUE, val |-> FindWindow(fnIn.coll, fnIn.t)]
  /\ UNCHANGED <<now, store, sheetVars, pc, localVars, exitCode, started, histVars, fnIn>>

SpecWindow == InitWindow /\ [][ApplyWindow]_vars

InitFlatten == ProgramInit /\ fnIn \in FlatInputs /\ fnOut = NoFn

\* flatten(copy) is called on the record.
ApplyFlatten ==
  /\ ~fnOut.done
  /\ fnOut' = [done |-> TRUE, val |-> flatten(fnIn, "", <<>>)]
  /\ UNCHANGED <<now, store, sheetVars, pc, localVars, exitCode, started, histVars, fnIn>>

SpecFlatten == InitFlatten /\ [][ApplyFlatten]_vars

InitMaterialize == ProgramInit /\ fnIn \in MatInputs /\ fnOut = NoFn

\* One row of values is built from a FlatRow and the headers.
ApplyMaterialize ==
  /\ ~fnOut.done
  /\ fnOut' = [done |-> TRUE, val |-> Materialize(fnIn.h, fnIn.r)]
  /\ UNCHANGED <<now, store, sheetVars, pc, localVars, exitCode, started, histVars, fnIn>>

SpecMaterialize == InitMaterialize /\ [][ApplyMaterialize]_vars

\* ================================================================ the claims
Range(seq) == {seq[i] : i \in 1..Len(seq)}

IsPrefix(a, b) == Len(a) <= Len(b) /\ \A i \in 1..Len(a) : a[i] = b[i]

\* The identifier strings of the records in the store.
StoreIdStrings == {OidToString(d.id) : d \in Range(store)}

\* The identifiers present in the destination: the record identifiers found
\* in the cells of its data rows.
DestIds == (UNION {Range(rows[i]) : i \in 1..Len(rows)}) \cap StoreIdStrings

\* The window candidates of the run in slot p that the destination does not
\* hold yet, in the order of the window.
NewDocs(p) == SelectSeq(docs[p], LAMBDA d : OidToString(d.id) \notin DestIds)

\* The run in slot p is past its query and has not ended.
InFlight(p) == pc[p] \in {"queried", "headerRead", "headerDone"}

\* C1: after any sequence of runs executed one after the other, no record
\* identifier occurs in more than one data row of the destination.
C1_NoDuplicateIds ==
  \A i, j \in 1..Len(rows) :
    i # j => (Range(rows[i]) \cap Range(rows[j]) \cap StoreIdStrings) = {}

\* C2: idempotence: a run that follows a successful run, with no record
\* inserted into the store since that run's query, appends no data row.
C2_SecondRunAppendsNothing ==
  [][\A p \in Procs :
       (pc[p] = "headerDone" /\ lastOkSeen >= 0 /\ seenLen[p] = lastOkSeen)
         => rows' = rows]_vars

\* C3: dedup filtering: the rows a run appends are exactly the materialized
\* window candidates whose identifier is not in the destination, in window
\* order.
C3_AppendsOnlyNew ==
  [][\A p \in Procs :
       (pc[p] = "headerDone" /\ pc'[p] = "idle" /\ exitCode'[p] = 0)
         => rows' = rows \o Values(RunHeaders(p), RowsFlat(NewDocs(p)))]_vars

\* C4: header monotonicity: the header before any step is a prefix of the
\* header after it, read and write faults of the sink included.
C4_HeaderMonotone == [][IsPrefix(header, header')]_vars

\* C5: window correctness: the query at instant t returns exactly the records
\* whose identifier carries a second at or after floor((t - 6 h) / 1000), in
\* strictly ascending identifier order.
C5_WindowCorrect ==
  fnOut.done /\ fnIn \in WinInputs =>
    LET result == fnOut.val
        inWindow == {d \in Range(fnIn.coll) :
                       d.id[1] * 1000 > fnIn.t - 6 * 60 * 60 * 1000 - 1000}
    IN /\ Range(result) = inWindow
       /\ Len(result) = Cardinality(inWindow)
       /\ \A k \in 1..(Len(result) - 1) :
            /\ OidGte(result[k + 1].id, result[k].id)
            /\ result[k + 1].id # result[k].id

\* C5 witness: the query has run on records stamped 1 h, 7 h and 5 h before
\* its instant and returned the 5 h and the 1 h record, in that order.
C5_Witness ==
  /\ fnOut.done
  /\ fnIn \in WinInputs
  /\ Len(fnIn.coll) = 3
  /\ fnIn.coll[1].id[1] = (fnIn.t \div 1000) - 1 * 3600
  /\ fnIn.coll[2].id[1] = (fnIn.t \div 1000) - 7 * 3600
  /\ fnIn.coll[3].id[1] = (fnIn.t \div 1000) - 5 * 3600
  /\ fnOut.val = <<fnIn.coll[3], fnIn.coll[1]>>

RECURSIVE ConcatKeys(_)
\* The keys of the FlatRows, row after row, repetitions kept.
ConcatKeys(flat) ==
  IF flat = <<>> THEN <<>> ELSE Keys(Head(flat)) \o ConcatKeys(Tail(flat))

\* The first place of k in the sequence ks.
FirstSeen(ks, k) == CHOOSE i \in 1..Len(ks) : ks[i] = k /\ \A j \in 1..(i - 1) : ks[j] # k

\* C8: schema unification: the unified header of a run is the existing
\* header followed by the observed keys it lacks, each once, in first-seen
\* order across the run's records.
C8_UnifiedHeader ==
  \A p \in Procs :
    pc[p] \in {"headerRead", "headerDone"} =>
      LET H == RunHeaders(p)
          E == existingHeader[p]
          seen == ConcatKeys(RowsFlat(docs[p]))
          added == SubSeq(H, Len(E) + 1, Len(H))
      IN /\ Len(H) >= Len(E)
         /\ SubSeq(H, 1, Len(E)) = E
         /\ Range(added) = Range(seen) \ Range(E)
         /\ \A i, j \in 1..Len(added) :
              i < j => FirstSeen(seen, added[i]) < FirstSeen(seen, added[j])

\* C8 witness: a run found a header and extends it with new keys.
C8_Witness ==
  \E p \in Procs :
    /\ pc[p] = "headerRead"
    /\ Len(existingHeader[p]) > 0
    /\ Len(RunHeaders(p)) > Len(existingHeader[p])

\* C9: a run that goes on to append has written the header row if and only
\* if its unified header differs from the header it read; the write leaves
\* the data rows alone, no write leaves the header alone, and data rows are
\* appended only after that decision.
C9_HeaderWriteBeforeAppend ==
  [][/\ \A p \in Procs :
          (pc[p] = "headerRead" /\ pc'[p] = "headerDone")
            => /\ wrote'[p] <=> (RunHeaders(p) # existingHeader[p])
               /\ rows' = rows
               /\ ~wrote'[p] => header' = header
               /\ wrote'[p] => SubSeq(header', 1, Len(RunHeaders(p))) = RunHeaders(p)
     /\ rows' # rows => \E p \in Procs : pc[p] = "headerDone" /\ pc'[p] = "idle"
     /\ header' # header => \E p \in Procs : pc[p] = "headerRead"]_vars

\* C9 witness: a run that found a header has rewritten it and is about to
\* append.
C9_Witness ==
  \E p \in Procs :
    pc[p] = "headerDone" /\ wrote[p] /\ Len(existingHeader[p]) > 0

\* C10: a run with no record judged new (nothing in the window, or every
\* candidate already in the destination) ends with exit code 0 and leaves the
\* destination's header and data rows as they were.
C10_EmptyResultUntouched ==
  [][\A p \in Procs :
       /\ (pc[p] = "connected" /\ FindWindow(store, now) = <<>> /\ exitCode'[p] # 1
             /\ pc'[p] # "connected")
            => (exitCode'[p] = 0 /\ header' = header /\ rows' = rows)
       /\ (InFlight(p) /\ NewDocs(p) = <<>>)
            => (header' = header /\ rows' = rows)]_vars

\* The text each of MatLeaves is rendered as, written out.
MatTexts ==
  <<"", "", "1", "12", "[1,\"a\"]", "\"2024-01-02T03:04:05.000Z\"">>

\* C6: materialization: the row has one cell per header column; the cell is
\* the text of the FlatRow's value under that column, and the empty string
\* when the FlatRow has no such key or holds null or undefined there.
C6_Materialized ==
  fnOut.done /\ fnIn \in MatInputs =>
    /\ Len(fnOut.val) = Len(fnIn.h)
    /\ \A i \in 1..Len(fnIn.h) :
         LET hits == {e \in Range(fnIn.r) : e[1] = fnIn.h[i]}
         IN IF hits = {} THEN fnOut.val[i] = ""
            ELSE \A e \in hits :
                   /\ e[2].t \in {"null", "undef"} => fnOut.val[i] = ""
                   /\ fnOut.val[i] =
                        MatTexts[CHOOSE k \in 1..Len(MatLeaves) : MatLeaves[k] = e[2]]

\* C6 witness: header [x, y, z] and FlatRow {x: "1"} give ["1", "", ""].
C6_Witness ==
  /\ fnOut.done
  /\ fnIn = [h |-> <<"x", "y", "z">>, r |-> << <<"x", Str("1")>> >>]
  /\ fnOut.val = <<"1", "", "">>

RECURSIVE LeafCount(_)
RECURSIVE LeafCountFrom(_, _)
\* The leaves of a value: the values in it that are not objects.
LeafCount(v) == IF v.t = "map" THEN LeafCountFrom(v.kids, 1) ELSE 1

LeafCountFrom(kids, i) ==
  IF i > Len(kids) THEN 0 ELSE LeafCount(kids[i][2]) + LeafCountFrom(kids, i + 1)

RECURSIVE HasArray(_)
HasArray(v) ==
  \/ v.t = "arr"
  \/ v.t = "map" /\ \E i \in 1..Len(v.kids) : HasArray(v.kids[i][2])

Dotted(name) == \E i \in 1..Len(name) : SubSeq(name, i, i) = "."

RECURSIVE HasDottedName(_)
HasDottedName(v) ==
  v.t = "map" /\ \E i \in 1..Len(v.kids) :
                   Dotted(v.kids[i][1]) \/ HasDottedName(v.kids[i][2])

RECURSIVE LeafPaths(_, _)
\* The leaves of v as <<dotted path, leaf>>: the names on the way to the
\* leaf joined by dots.
LeafPaths(v, path) ==
  IF v.t = "map"
  THEN UNION { LeafPaths(v.kids[i][2],
                         IF path = "" THEN v.kids[i][1] ELSE path \o "." \o v.kids[i][1])
                 : i \in 1..Len(v.kids) }
  ELSE {<<path, v>>}

\* C7 as stated: a record without arrays flattens to as many keys as it has
\* leaves.
C7_LeafCountAnyNames ==
  (fnOut.done /\ fnIn \in FlatInputs /\ ~HasArray(fnIn))
    => Len(fnOut.val) = LeafCount(fnIn)

\* C7 amended: a record without arrays whose field names hold no dot
\* flattens to as many keys as it has leaves, each leaf under its dotted
\* path and no key twice.
C7_LeafCountPlainNames ==
  (fnOut.done /\ fnIn \in FlatInputs /\ ~HasArray(fnIn) /\ ~HasDottedName(fnIn))
    => /\ Len(fnOut.val) = LeafCount(fnIn)
       /\ Range(fnOut.val) = LeafPaths(fnIn, "")
       /\ \A i, j \in 1..Len(fnOut.val) :
            i # j => fnOut.val[i][1] # fnOut.val[j][1]

\* C7 witness: {a: {a: null, b: "1"}, b: null} has been flattened to the
\* keys a.a, a.b and b.
C7_Witness ==
  /\ fnOut.done
  /\ fnIn = Map(<< <<"a", Map(<< <<"a", Null>>, <<"b", Str("1")>> >>)>>,
                   <<"b", Null>> >>)
  /\ Keys(fnOut.val) = <<"a.a", "a.b", "b">>

\* C12: a store fault writes nothing. A run whose connect throws, or whose
\* window query throws, ends with exit code 1, has called neither
\* values.update nor values.append, and leaves the header and the data rows
\* of the destination as they were.
C12_StoreFaultWritesNothing ==
  [][/\ (started' = started + 1 /\ pc' = pc)
          => /\ header' = header /\ rows' = rows
             /\ \E p \in Procs : pc[p] = "idle" /\ exitCode'[p] = 1
     /\ \A p \in Procs :
          /\ pc[p] = "connected" => (~wrote[p] /\ docs[p] = <<>>)
          /\ (pc[p] = "connected" /\ pc'[p] = "idle")
               => (header' = header /\ rows' = rows)
          /\ (pc[p] = "connected" /\ pc'[p] = "idle" /\ FindWindow(store, now) # <<>>)
               => exitCode'[p] = 1]_vars

\* C12 witness: the window query of a run threw although the window holds a
\* record; the run exited 1 and the destination holds the header and the
\* rows of the run before it.
C12_Witness ==
  /\ prev.at = "query"
  /\ exitCode[1] = 1
  /\ FindWindow(store, now) # <<>>
  /\ header # <<>>
  /\ rows # <<>>

\* The keys of the FlatRows in the order of their first occurrence.
ObservedKeys(flat) ==
  LET ks == ConcatKeys(flat)
      idx == SelectSeq([i \in 1..Len(ks) |-> i],
                       LAMBDA i : \A j \in 1..(i - 1) : ks[j] # ks[i])
  IN [k \in 1..Len(idx) |-> ks[idx[k]]]

\* C13: a header read that throws does not end the run. A run that holds no
\* existing header, because the sheet has none or because the read threw,
\* writes the observed keys as the header row and then appends its rows
\* under those columns; a values.update or values.append that throws ends
\* the run with exit code 1.
C13_ReadFaultMeansNoHeader ==
  [][\A p \in Procs :
       LET observed == ObservedKeys(RowsFlat(docs[p]))
       IN /\ pc[p] = "queried" => pc'[p] \in {"queried", "headerRead"}
          /\ (pc[p] = "headerRead" /\ existingHeader[p] = <<>> /\ pc'[p] # "headerRead")
               => \/ /\ pc'[p] = "headerDone"
                     /\ wrote'[p]
                     /\ IsPrefix(observed, header')
                     /\ rows' = rows
                  \/ /\ pc'[p] = "idle"
                     /\ exitCode'[p] = 1
                     /\ header' = header /\ rows' = rows
          /\ (pc[p] = "headerDone" /\ existingHeader[p] = <<>>
                /\ pc'[p] = "idle" /\ exitCode'[p] = 0)
               => rows' = rows \o Values(observed, RowsFlat(docs[p]))
          /\ (pc[p] \in {"headerRead", "headerDone"} /\ pc'[p] = "idle" /\ rows' = rows)
               => exitCode'[p] = 1]_vars

\* C13 witness: the destination holds data rows, hence a header, yet the run
\* holds no existing header: its read threw; it has written its observed
\* keys over the header and is about to append.
C13_Witness ==
  \E p \in Procs :
    /\ pc[p] = "headerDone"
    /\ wrote[p]
    /\ existingHeader[p] = <<>>
    /\ rows # <<>>
    /\ IsPrefix(ObservedKeys(RowsFlat(docs[p])), header)

\* The number of the rows rs that hold the identifier string s in a cell.
CountRows(rs, s) == Cardinality({i \in 1..Len(rs) : s \in Range(rs[i])})

\* The instant of the window query of the run in slot p.
QueryInstant(p) == IF pc[p] = "connected" THEN now ELSE queriedAt[p]

\* The record carries a second inside the six hours before instant t.
InWindowAt(d, t) == d.id[1] * 1000 > t - 6 * 60 * 60 * 1000 - 1000

\* C11 as stated: a run whose values.update returned and whose values.append
\* threw exits 1 and leaves the destination with the header it wrote and
\* none of its rows; the next run that exits 0 appends each of the records
\* that run left behind exactly once.
C11_RecoveryAnyTime ==
  [][\A p \in Procs :
       /\ (pc[p] = "headerDone" /\ wrote[p] /\ pc'[p] = "idle" /\ rows' = rows)
            => /\ exitCode'[p] = 1
               /\ header' = header
               /\ IsPrefix(RunHeaders(p), header)
       /\ (pending.st = "open" /\ pc[p] # "idle" /\ pc'[p] = "idle" /\ exitCode'[p] = 0)
            => /\ IsPrefix(rows, rows')
               /\ \A d \in Range(pending.docs) :
                    CountRows(SubSeq(rows', Len(rows) + 1, Len(rows')),
                              OidToString(d.id)) = 1]_vars

\* C11 amended: as C11, for the records the failed run left behind that are
\* still in the window of the next run that exits 0; that run appends none
\* of those that have left its window.
C11_RecoveryInWindow ==
  [][\A p \in Procs :
       /\ (pc[p] = "headerDone" /\ wrote[p] /\ pc'[p] = "idle" /\ rows' = rows)
            => /\ exitCode'[p] = 1
               /\ header' = header
               /\ IsPrefix(RunHeaders(p), header)
       /\ (pending.st = "open" /\ pc[p] # "idle" /\ pc'[p] = "idle" /\ exitCode'[p] = 0)
            => /\ IsPrefix(rows, rows')
               /\ \A d \in Range(pending.docs) :
                    CountRows(SubSeq(rows', Len(rows) + 1, Len(rows')),
                              OidToString(d.id))
                      = IF InWindowAt(d, QueryInstant(p)) THEN 1 ELSE 0]_vars

\* C11 witness: a run wrote the header and failed to append; the run after
\* it is done, and the destination holds each record the failed run left
\* behind in exactly one row.
C11_Witness ==
  /\ pending.st = "closed"
  /\ pending.docs # <<>>
  /\ prev.at = "done"
  /\ \A d \in Range(pending.docs) : CountRows(rows, OidToString(d.id)) = 1

\* The keys of the records that the destination holds a row of.
ExportedKeys ==
  UNION { Range(Keys(FlattenDoc(d))) :
            d \in {e \in Range(store) : CountRows(rows, OidToString(e.id)) > 0} }

\* C14: overlapping runs race on the destination. A run never looks at the
\* destination again after its header read: a header write drops or moves a
\* column of the header only when the writing run holds a read that is no
\* longer the header, and a run appends one row for each record of its
\* window whatever rows the other run has appended meanwhile. The witness is
\* the race itself.
C14_StaleReadRaces ==
  [][/\ ~IsPrefix(header, header')
          => \E p \in Procs :
               /\ pc[p] = "headerRead" /\ pc'[p] = "headerDone"
               /\ existingHeader[p] # TrimRight(header)
     /\ \A p \in Procs :
          (pc[p] = "headerDone" /\ pc'[p] = "idle")
            => /\ Len(rows') = Len(rows) + Len(docs[p])
               /\ \A d \in Range(docs[p]) :
                    CountRows(SubSeq(rows', Len(rows) + 1, Len(rows')),
                              OidToString(d.id)) = 1]_vars

\* C14 witness: two runs have ended with exit code 0, one of them appended
\* while the other held its header read and had not appended yet; a record
\* is in two data rows, and a key of an exported record is in no column of
\* the header, the later header write having overwritten the earlier one.
C14_Witness ==
  /\ raced
  /\ \A p \in Procs : pc[p] = "idle" /\ exitCode[p] = 0
  /\ \E s \in StoreIdStrings : CountRows(rows, s) = 2
  /\ ExportedKeys \ Range(header) # {}

\* The record of the store whose identifier string is in a cell of row r.
RecordOf(r) == CHOOSE d \in Range(store) : OidToString(d.id) \in Range(r)

\* C15: data rows are append-only. The data rows before any step of a run,
\* whether the run goes on to complete or to abort, are a prefix of the data
\* rows after it, and the rows a step adds carry strictly ascending record
\* identifiers.
C15_RowsAppendOnly ==
  [][/\ IsPrefix(rows, rows')
     /\ \A k \in (Len(rows) + 1)..(Len(rows') - 1) :
          /\ OidGte(RecordOf(rows'[k + 1]).id, RecordOf(rows'[k]).id)
          /\ RecordOf(rows'[k + 1]).id # RecordOf(rows'[k]).id]_vars

\* C15 witness: a run has appended the rows of two records below the row
\* that the run before it appended for the first of them.
C15_Witness ==
  /\ Len(rows) = 3
  /\ RecordOf(rows[1]) = RecordOf(rows[2])
  /\ RecordOf(rows[2]) # RecordOf(rows[3])
  /\ \A p \in Procs : pc[p] = "idle"

\* C16: column alignment is kept across runs executed one after the other,
\* header read faults included: every cell of every data row is the
\* materialized value of the row's record for the field that the current
\* header names in the cell's column.
C16_ColumnsAligned ==
  \A i \in 1..Len(rows) :
    \A c \in 1..Len(rows[i]) :
      /\ c <= Len(header)
      /\ rows[i][c] = Cell(FlattenDoc(RecordOf(rows[i])), header[c])

\* C17 as stated: with runs one after the other in which no call throws,
\* every record of the store created at most six hours before a run was
\* started is in a data row once that run has ended, and a run adds rows
\* only for records inside its window.
C17_NoLossFromStart ==
  [][\A p \in Procs :
       (pc[p] # "idle" /\ pc'[p] = "idle" /\ exitCode'[p] = 0)
         => /\ \A d \in Range(store) :
                 startedAt[p] - d.id[1] * 1000 <= 6 * 60 * 60 * 1000
                   => CountRows(rows', OidToString(d.id)) >= 1
            /\ \A k \in (Len(rows) + 1)..Len(rows') :
                 InWindowAt(RecordOf(rows'[k]), QueryInstant(p))]_vars

\* C17 amended: the six hours are counted back from the instant of the
\* run's window query, not from its start: every record of the store whose
\* second is at most six hours before that instant is in a data row once the
\* run has ended, and a run adds rows only for records inside its window.
C17_NoLossFromQuery ==
  [][\A p \in Procs :
       (pc[p] # "idle" /\ pc'[p] = "idle" /\ exitCode'[p] = 0)
         => /\ \A d \in Range(store) :
                 QueryInstant(p) - d.id[1] * 1000 <= 6 * 60 * 60 * 1000 + 999
                   => CountRows(rows', OidToString(d.id)) >= 1
            /\ \A k \in (Len(rows) + 1)..Len(rows') :
                 InWindowAt(RecordOf(rows'[k]), QueryInstant(p))]_vars

\* C17 witness: the last run has ended; the destination holds the row of a
\* record whose second is exactly six hours before the clock, and no row of
\* an older record of the store, which no run had in its window.
C17_Witness ==
  /\ started = MaxRuns
  /\ \A p \in Procs : pc[p] = "idle" /\ exitCode[p] \in {-1, 0}
  /\ \E e \in Range(store) :
       /\ now - e.id[1] * 1000 = 6 * 60 * 60 * 1000
       /\ CountRows(rows, OidToString(e.id)) = 1
  /\ \E d \in Range(store) :
       /\ ~InWindowAt(d, now)
       /\ CountRows(rows, OidToString(d.id)) = 0

\* The run in slot p ends with exit code 0, having queried exactly six hours
\* after the query of the run before it, which was done.
SixHoursAfterPrev(p) ==
  /\ pc[p] = "headerDone"
  /\ prev.at = "done"
  /\ queriedAt[p] - prev.t = 6 * 60 * 60 * 1000

====
